---- MODULE Spec2Model ----
(***************************************************************************)
(* Model of streamlit_app.py: the APA 7th -> RIS conversion pipeline.      *)
(*                                                                         *)
(* A Python str is modelled as a sequence of one-character strings, so     *)
(* that slicing, searching and concatenation are computed character by     *)
(* character as the code computes them.  The regular expressions of the    *)
(* code are modelled by explicit matchers over these sequences.            *)
(*                                                                         *)
(* The character classes are the ASCII part of Python's classes:           *)
(* str.isspace / \s, \d, \w and str.lower are restricted to ASCII.         *)
(***************************************************************************)
EXTENDS Integers, Sequences, FiniteSets, TLC

VARIABLES pc, original, after_year, ty, line, record, out,
          text, lines, ris_entries, result

vars == <<pc, original, after_year, ty, line, record, out,
          text, lines, ris_entries, result>>

----------------------------------------------------------------------------
(* Character classes *)

Whitespace == {" ", "\t", "\n", "\r", "\f"}

Digits == {"0", "1", "2", "3", "4", "5", "6", "7", "8", "9"}

UpperSeq == <<"A", "B", "C", "D", "E", "F", "G", "H", "I", "J", "K", "L", "M",
              "N", "O", "P", "Q", "R", "S", "T", "U", "V", "W", "X", "Y", "Z">>

LowerSeq == <<"a", "b", "c", "d", "e", "f", "g", "h", "i", "j", "k", "l", "m",
              "n", "o", "p", "q", "r", "s", "t", "u", "v", "w", "x", "y", "z">>

Range(f) == {f[i] : i \in DOMAIN f}

\* the characters \w matches
WordChars == Range(UpperSeq) \cup Range(LowerSeq) \cup Digits \cup {"_"}

\* U+2013 EN DASH, one character of the input (the module is ASCII only)
EnDash == "u2013"

----------------------------------------------------------------------------
(* str helpers *)

\* s[i], or "" (no character) outside the string
At(s, i) == IF i \in 1..Len(s) THEN s[i] ELSE ""

\* the lower-case letter of each upper-case letter
LowerMap ==
  [c \in Range(UpperSeq) |-> LowerSeq[CHOOSE i \in DOMAIN UpperSeq : UpperSeq[i] = c]]

\* str.lower of one character
LowerChar(c) == IF c \in DOMAIN LowerMap THEN LowerMap[c] ELSE c

\* the case folding left out
lower_identity(s) == s

\* str.lower
lower(s) == [i \in 1..Len(s) |-> LowerChar(s[i])]

\* t in s
Contains(s, t) ==
  \E i \in 1..(Len(s) - Len(t) + 1) : SubSeq(s, i, i + Len(t) - 1) = t

\* s.startswith(t) at offset i
MatchesAt(s, i, t) == i >= 1 /\ i + Len(t) - 1 <= Len(s) /\ SubSeq(s, i, i + Len(t) - 1) = t

\* the end (exclusive) of the longest run of characters of C starting at i
RunEnd(s, i, C) ==
  IF i > Len(s) THEN i
  ELSE CHOOSE j \in i..(Len(s) + 1) :
         /\ \A x \in i..(j - 1) : s[x] \in C
         /\ j = Len(s) + 1 \/ s[j] \notin C

\* the end (exclusive) of the longest run of \S characters starting at i
NonSpaceEnd(s, i) ==
  IF i > Len(s) THEN i
  ELSE CHOOSE j \in i..(Len(s) + 1) :
         /\ \A x \in i..(j - 1) : s[x] \notin Whitespace
         /\ j = Len(s) + 1 \/ s[j] \in Whitespace

\* str.lstrip
lstrip(s) == SubSeq(s, RunEnd(s, 1, Whitespace), Len(s))

\* str.rstrip
rstrip(s) ==
  SubSeq(s, 1, CHOOSE j \in 0..Len(s) :
                 /\ \A x \in (j + 1)..Len(s) : s[x] \in Whitespace
                 /\ j = 0 \/ s[j] \notin Whitespace)

\* str.strip
strip(s) == rstrip(lstrip(s))

\* s.find(c): the first index of c, or 0 when c is not in s (Python's -1)
find(s, c) ==
  IF \E i \in 1..Len(s) : s[i] = c
    THEN CHOOSE i \in 1..Len(s) : s[i] = c /\ \A j \in 1..(i - 1) : s[j] # c
    ELSE 0

\* sep.join(parts)
RECURSIVE join(_, _)
join(sep, parts) ==
  IF parts = <<>> THEN <<>>
  ELSE IF Len(parts) = 1 THEN parts[1]
  ELSE parts[1] \o sep \o join(sep, Tail(parts))

----------------------------------------------------------------------------
(* detect_reference_type *)

JOUR == <<"J", "O", "U", "R">>
RPRT == <<"R", "P", "R", "T">>
ELEC == <<"E", "L", "E", "C">>
GEN == <<"G", "E", "N">>

institution_keywords == {
  <<"d", "e", "p", "a", "r", "t", "m", "e", "n", "t">>,
  <<"c", "o", "m", "m", "i", "s", "s", "i", "o", "n">>,
  <<"c", "o", "u", "n", "c", "i", "l">>,
  <<"u", "n", "i", "v", "e", "r", "s", "i", "t", "y">>,
  <<"u", "n", "i", "c", "e", "f">>,
  <<"m", "i", "n", "i", "s", "t", "r", "y">>,
  <<"o", "f", "f", "i", "c", "e">>,
  <<"o", "r", "g", "a", "n", "i", "s", "a", "t", "i", "o", "n">>,
  <<"o", "r", "g", "a", "n", "i", "z", "a", "t", "i", "o", "n">>,
  <<"g", "o", "v", "e", "r", "n", "m", "e", "n", "t">>,
  <<"a", "u", "t", "h", "o", "r", "i", "t", "y">> }

report_markers == {
  <<"[", "p", "r", "e", "s", "s", " ", "r", "e", "l", "e", "a", "s", "e", "]">>,
  <<"[", "a", "d", "v", "o", "c", "a", "c", "y">>,
  <<"s", "u", "b", "m", "i", "s", "s", "i", "o", "n", " ", "t", "o", " ", "t", "h", "e">>,
  <<"b", "r", "i", "e", "f", "i", "n", "g", "]">>,
  <<"t", "e", "c", "h", "n", "i", "c", "a", "l", " ", "r", "e", "p", "o", "r", "t">>,
  <<"w", "o", "r", "k", "i", "n", "g", " ", "p", "a", "p", "e", "r">>,
  <<"p", "o", "l", "i", "c", "y", " ", "p", "a", "p", "e", "r">> }

\* \b at the position before s[i]
WordBoundary(s, i) == (At(s, i - 1) \in WordChars) # (At(s, i) \in WordChars)

\* \d+\(\d+\)\s*,\s*\d matched at i (each run is followed by a character
\* outside its class, so only the longest run can match)
VolIssueAt(s, i) ==
  LET j == RunEnd(s, i, Digits)
      k == RunEnd(s, j + 1, Digits)
      m == RunEnd(s, k + 1, Whitespace)
      n == RunEnd(s, m + 1, Whitespace)
  IN  /\ j > i
      /\ At(s, j) = "("
      /\ k > j + 1
      /\ At(s, k) = ")"
      /\ At(s, m) = ","
      /\ At(s, n) \in Digits

\* re.match in place of re.search: the pattern is tried at the start only
VolIssueSearch_match(s) == WordBoundary(s, 1) /\ VolIssueAt(s, 1)

\* re.search(r"\b\d+\(\d+\)\s*,\s*\d", s) is not None
VolIssueSearch(s) == \E i \in 1..Len(s) : WordBoundary(s, i) /\ VolIssueAt(s, i)

HasInstitution(low) == \E kw \in institution_keywords : Contains(low, kw)

\* all() in place of any()
HasMarker_all(low) == \A m \in report_markers : Contains(low, m)

HasMarker(low) == \E m \in report_markers : Contains(low, m)

\* the report checks moved before the journal checks
detect_reference_type_reordered(orig, after) ==
  LET low_original == lower(orig)
  IN  IF HasInstitution(low_original) /\ HasMarker(low_original)
        THEN RPRT
      ELSE IF Contains(low_original, <<"d", "o", "i", ".", "o", "r", "g">>) \/ Contains(low_original, <<"d", "o", "i", ":">>)
        THEN JOUR
      ELSE IF VolIssueSearch(orig)
        THEN JOUR
      ELSE IF HasInstitution(low_original) /\ ~Contains(low_original, <<"d", "o", "i">>)
        THEN RPRT
      ELSE ELEC

detect_reference_type(orig, after) ==
  LET low_original == lower(orig)
      low_after == lower(after)
  IN  IF Contains(low_original, <<"d", "o", "i", ".", "o", "r", "g">>) \/ Contains(low_original, <<"d", "o", "i", ":">>)
        THEN JOUR
      ELSE IF VolIssueSearch(orig)
        THEN JOUR
      ELSE IF HasInstitution(low_original) /\ HasMarker(low_original)
        THEN RPRT
      ELSE IF HasInstitution(low_original) /\ ~Contains(low_original, <<"d", "o", "i">>)
        THEN RPRT
      ELSE ELEC

----------------------------------------------------------------------------
(* parse_apa_reference *)

\* an optional value: None, or a str
None == <<>>
Some(v) == <<v>>

\* Python truthiness of an optional str: not None and not ""
Truthy(o) == o # None /\ o[1] # <<>>

Tags == {"TY", "AU", "PY", "TI", "UR", "N1"}

\* the empty dict {}
EmptyDict == [k \in {} |-> None]

\* record.get(k)
Get(rec, k) == IF k \in DOMAIN rec THEN rec[k] ELSE None

\* \((\d{4})\) matched at i
YearAt(s, i) ==
  /\ At(s, i) = "("
  /\ \A d \in 1..4 : At(s, i + d) \in Digits
  /\ At(s, i + 5) = ")"

\* re.search(r"\((\d{4})\)", s): the start of the first match, 0 for no match
year_match(s) ==
  IF \E i \in 1..Len(s) : YearAt(s, i)
    THEN CHOOSE i \in 1..Len(s) : YearAt(s, i) /\ \A j \in 1..(i - 1) : ~YearAt(s, j)
    ELSE 0

\* the end (exclusive) of https?://\S+ matched at i, 0 for no match
UrlEndAt(s, i) ==
  LET p == IF MatchesAt(s, i, <<"h", "t", "t", "p", "s", ":", "/", "/">>) THEN i + 8
           ELSE IF MatchesAt(s, i, <<"h", "t", "t", "p", ":", "/", "/">>) THEN i + 7
           ELSE 0
      e == NonSpaceEnd(s, p)
  IN  IF p # 0 /\ e > p THEN e ELSE 0

\* re.search(r"(https?://\S+)", s): the start of the first match, 0 for no match
url_match(s) ==
  IF \E i \in 1..Len(s) : UrlEndAt(s, i) # 0
    THEN CHOOSE i \in 1..Len(s) :
           UrlEndAt(s, i) # 0 /\ \A j \in 1..(i - 1) : UrlEndAt(s, j) = 0
    ELSE 0

\* the trailing period of the author segment kept
authors_before_keep_period(orig, ym) ==
  Some(strip(SubSeq(orig, 1, ym - 1)) \o <<",">>)

\* authors or corporate author before the year (ym is the year's start)
authors_before(orig, ym) ==
  LET a0 == strip(SubSeq(orig, 1, ym - 1))
      a1 == IF a0 # <<>> /\ a0[Len(a0)] = "."
              THEN strip(SubSeq(a0, 1, Len(a0) - 1))
              ELSE a0
      authors == a1 \o <<",">>
  IN  IF authors # <<>> THEN Some(authors) ELSE None

\* text after the year, a leading period removed
after_year_of(orig, ym) ==
  LET a0 == lstrip(SubSeq(orig, ym + 6, Len(orig)))
  IN  IF a0 # <<>> /\ a0[1] = "." THEN lstrip(Tail(a0)) ELSE a0

\* the title: the text up to the first period
title_of(after) ==
  LET period_index == find(after, ".")
      title == IF period_index # 0
                 THEN strip(SubSeq(after, 1, period_index - 1))
                 ELSE strip(after)
  IN  IF title # <<>> THEN Some(title) ELSE None

\* the first URL of the line, if present
url_of(orig) ==
  LET um == url_match(orig)
  IN  IF um # 0 THEN Some(SubSeq(orig, um, UrlEndAt(orig, um) - 1)) ELSE None

\* the URL extracted before the year is looked for
initial_record_with_url(orig) ==
  [TY |-> Some(GEN), AU |-> None, PY |-> None, TI |-> None,
   UR |-> url_of(orig), N1 |-> Some(orig)]

\* the record as first built, returned as it is when the line has no year
initial_record(orig) ==
  [TY |-> Some(GEN), AU |-> None, PY |-> None, TI |-> None,
   UR |-> None, N1 |-> Some(orig)]

parse_apa_reference(ln) ==
  LET orig == strip(ln)
      ym == year_match(orig)
      after == after_year_of(orig, ym)
  IN  IF orig = <<>> THEN EmptyDict
      ELSE IF ym = 0 THEN initial_record(orig)
      ELSE [TY |-> Some(detect_reference_type(orig, after)),
            AU |-> authors_before(orig, ym),
            PY |-> Some(SubSeq(orig, ym + 1, ym + 4)),
            TI |-> title_of(after),
            UR |-> url_of(orig),
            N1 |-> Some(orig)]

----------------------------------------------------------------------------
(* record_to_ris *)

TagText == [TY |-> <<"T", "Y">>, AU |-> <<"A", "U">>, TI |-> <<"T", "I">>, PY |-> <<"P", "Y">>,
            UR |-> <<"U", "R">>, N1 |-> <<"N", "1">>, ER |-> <<"E", "R">>]

\* f"{tag}  - {value}"
TagLine(tag, value) == TagText[tag] \o <<" ", " ", "-", " ">> \o value

\* `is not None` in place of the truth test: an empty value is written
FieldLines_not_none(rec, tag) ==
  IF Get(rec, tag) # None THEN <<TagLine(tag, Get(rec, tag)[1])>> ELSE <<>>

\* the line of an optional field: written only when the field is non-empty
FieldLines(rec, tag) ==
  IF Truthy(Get(rec, tag)) THEN <<TagLine(tag, Get(rec, tag)[1])>> ELSE <<>>

record_to_ris(rec) ==
  LET t == IF Truthy(Get(rec, "TY")) THEN Get(rec, "TY")[1] ELSE GEN
      ris_lines == <<TagLine("TY", t)>>
                     \o FieldLines(rec, "AU")
                     \o FieldLines(rec, "TI")
                     \o FieldLines(rec, "PY")
                     \o FieldLines(rec, "UR")
                     \o FieldLines(rec, "N1")
                     \o <<TagLine("ER", <<>>)>>
  IN  join(<<"\n">>, ris_lines) \o <<"\n", "\n">>

----------------------------------------------------------------------------
(* references_text_to_ris *)

\* the line boundaries of str.splitlines
LineBreaks == {"\n", "\r", "\f"}

\* the first line boundary of s at or after i, Len(s) + 1 when there is none
NextBreak(s, i) ==
  IF i > Len(s) THEN i
  ELSE CHOOSE j \in i..(Len(s) + 1) :
         /\ \A x \in i..(j - 1) : s[x] \notin LineBreaks
         /\ j = Len(s) + 1 \/ s[j] \in LineBreaks

\* str.splitlines: "\r\n" is one boundary; a final boundary opens no line
RECURSIVE splitlines(_)
splitlines(s) ==
  IF s = <<>> THEN <<>>
  ELSE LET i == NextBreak(s, 1)
           skip == IF At(s, i) = "\r" /\ At(s, i + 1) = "\n" THEN 2 ELSE 1
       IN  IF i > Len(s) THEN <<s>>
           ELSE <<SubSeq(s, 1, i - 1)>> \o splitlines(SubSeq(s, i + skip, Len(s)))

----------------------------------------------------------------------------
(* Inputs *)

\* the concatenation of a sequence of strings
RECURSIVE Flatten(_)
Flatten(ts) == IF ts = <<>> THEN <<>> ELSE Head(ts) \o Flatten(Tail(ts))

\* the strings made of at most n pieces of T
Compose(T, n) == {Flatten(ts) : ts \in UNION {[1..k -> T] : k \in 0..n}}

MaxDetectTokens == 3

DetectTokens == {
  <<"x">>, <<" ">>, <<"5", "(", "2", ")", ",", " ", "1">>, <<"1", "2", "(", "3", ")", " ", ",", "4">>,
  <<"d", "o", "i", ".", "o", "r", "g">>, <<"D", "O", "I", ":">>, <<"d", "o", "i">>,
  <<"U", "n", "i", "v", "e", "r", "s", "i", "t", "y">>, <<"o", "f", "f", "i", "c", "e">>,
  <<"w", "o", "r", "k", "i", "n", "g", " ", "p", "a", "p", "e", "r">>, <<"[", "P", "r", "e", "s", "s", " ", "R", "e", "l", "e", "a", "s", "e", "]">> }

DetectLines == Compose(DetectTokens, MaxDetectTokens)

AfterYears == {<<>>, <<"d", "o", "i", ":", " ", "c", "o", "u", "n", "c", "i", "l">>}

----------------------------------------------------------------------------
(* SpecDetect: detect_reference_type applied to one raw line *)

InitDetect ==
  /\ pc = "call"
  /\ original \in DetectLines
  /\ after_year \in AfterYears
  /\ ty = None
  /\ line = <<>>
  /\ record = EmptyDict
  /\ out = <<>>
  /\ text = <<>>
  /\ lines = <<>>
  /\ ris_entries = <<>>
  /\ result = <<>>

Detect ==
  /\ pc = "call"
  /\ ty' = Some(detect_reference_type(original, after_year))
  /\ pc' = "ret"
  /\ UNCHANGED <<original, after_year, line, record, out, text, lines,
                 ris_entries, result>>

NextDetect == Detect

SpecDetect == InitDetect /\ [][NextDetect]_vars

----------------------------------------------------------------------------
(* Properties of detect_reference_type, stated on the characters of the   *)
(* line, independently of the operators that model the code               *)

\* the upper-case letter of each lower-case letter
UpperMap ==
  [c \in Range(LowerSeq) |-> UpperSeq[CHOOSE j \in DOMAIN LowerSeq : LowerSeq[j] = c]]

\* c is the lower-case character d in either case
SameLetter(c, d) == c = d \/ (d \in DOMAIN UpperMap /\ c = UpperMap[d])

\* the lower-case string t occurs in s at i, compared case-insensitively
OccursAtCI(s, i, t) ==
  /\ i + Len(t) - 1 <= Len(s)
  /\ \A k \in 1..Len(t) : SameLetter(s[i + k - 1], t[k])

\* the lower-case string t occurs in s, compared case-insensitively
OccursCI(s, t) == \E i \in 1..Len(s) : OccursAtCI(s, i, t)

\* the line has a DOI indicator: `doi.org` or `doi:`
DoiIndicator(s) == OccursCI(s, <<"d", "o", "i", ".", "o", "r", "g">>) \/ OccursCI(s, <<"d", "o", "i", ":">>)

InstitutionKeyword(s) == \E kw \in institution_keywords : OccursCI(s, kw)

ReportMarker(s) == \E m \in report_markers : OccursCI(s, m)

\* digits, `(`, digits, `)`, optional whitespace, a comma, optional
\* whitespace, a digit: the pattern occurs in s with its first digit at i
PatternAt(s, i) ==
  \E j \in (i + 1)..Len(s) :
    /\ \A x \in i..(j - 1) : s[x] \in Digits
    /\ s[j] = "("
    /\ \E k \in (j + 2)..Len(s) :
         /\ \A x \in (j + 1)..(k - 1) : s[x] \in Digits
         /\ s[k] = ")"
         /\ \E m \in (k + 1)..Len(s) :
              /\ \A x \in (k + 1)..(m - 1) : s[x] \in Whitespace
              /\ s[m] = ","
              /\ \E n \in (m + 1)..Len(s) :
                   /\ \A x \in (m + 1)..(n - 1) : s[x] \in Whitespace
                   /\ s[n] \in Digits

\* the pattern occurs somewhere in s
PatternAnywhere(s) == \E i \in 1..Len(s) : PatternAt(s, i)

\* the pattern occurs in s with its first digit at the start of the line or
\* right after a character that is no letter, digit or underscore
PatternAtBoundary(s) ==
  \E i \in 1..Len(s) : PatternAt(s, i) /\ (i = 1 \/ s[i - 1] \notin WordChars)

\* C1: a raw line with a DOI indicator (`doi.org` or `doi:`, compared
\* case-insensitively) is classified JOUR, whatever institution keywords or
\* report markers it contains and whatever after_year is.
C1_DoiIsJournal ==
  (pc = "ret" /\ DoiIndicator(original)) => ty = Some(JOUR)

C1_Witness ==
  /\ pc = "ret"
  /\ DoiIndicator(original)
  /\ InstitutionKeyword(original)
  /\ ReportMarker(original)
  /\ after_year # <<>>
  /\ ty = Some(JOUR)

\* C2 as stated: a raw line without a DOI indicator that contains the
\* volume(issue), page pattern is classified JOUR, wherever the pattern
\* occurs and whatever character precedes its first digit.
C2_Original ==
  (pc = "ret" /\ ~DoiIndicator(original) /\ PatternAnywhere(original))
    => ty = Some(JOUR)

\* C2 amended: a raw line without a DOI indicator that contains the
\* volume(issue), page pattern with its first digit at the start of the
\* line or right after a non-word character is classified JOUR.
C2_PatternAtBoundaryIsJournal ==
  (pc = "ret" /\ ~DoiIndicator(original) /\ PatternAtBoundary(original))
    => ty = Some(JOUR)

C2_Witness ==
  /\ pc = "ret"
  /\ ~DoiIndicator(original)
  /\ PatternAtBoundary(original)
  /\ ~PatternAt(original, 1)
  /\ InstitutionKeyword(original)
  /\ ty = Some(JOUR)

\* C3 as stated: a raw line with an institution keyword, a report marker
\* and no DOI indicator is classified RPRT.
C3_Original ==
  (/\ pc = "ret"
   /\ InstitutionKeyword(original)
   /\ ReportMarker(original)
   /\ ~DoiIndicator(original))
    => ty = Some(RPRT)

\* C3 amended: a raw line with an institution keyword, a report marker, no
\* DOI indicator and no volume(issue), page pattern at a word boundary is
\* classified RPRT.
C3_InstitutionAndMarkerIsReport ==
  (/\ pc = "ret"
   /\ InstitutionKeyword(original)
   /\ ReportMarker(original)
   /\ ~DoiIndicator(original)
   /\ ~PatternAtBoundary(original))
    => ty = Some(RPRT)

C3_Witness ==
  /\ pc = "ret"
  /\ InstitutionKeyword(original)
  /\ ReportMarker(original)
  /\ ~DoiIndicator(original)
  /\ ~PatternAtBoundary(original)
  /\ OccursCI(original, <<"d", "o", "i">>)
  /\ ty = Some(RPRT)

\* C4 as stated: a raw line with an institution keyword, no DOI indicator
\* (neither `doi.org` nor `doi:`) and no report marker is classified RPRT.
C4_Original ==
  (/\ pc = "ret"
   /\ InstitutionKeyword(original)
   /\ ~DoiIndicator(original)
   /\ ~ReportMarker(original))
    => ty = Some(RPRT)

\* C4 amended: a raw line with an institution keyword, no report marker, no
\* substring `doi` (compared case-insensitively) and no volume(issue), page
\* pattern at a word boundary is classified RPRT.
C4_InstitutionOnlyIsReport ==
  (/\ pc = "ret"
   /\ InstitutionKeyword(original)
   /\ ~ReportMarker(original)
   /\ ~OccursCI(original, <<"d", "o", "i">>)
   /\ ~PatternAtBoundary(original))
    => ty = Some(RPRT)

C4_Witness ==
  /\ pc = "ret"
  /\ InstitutionKeyword(original)
  /\ ~ReportMarker(original)
  /\ ~OccursCI(original, <<"d", "o", "i">>)
  /\ ~PatternAtBoundary(original)
  /\ PatternAnywhere(original)
  /\ ty = Some(RPRT)

----------------------------------------------------------------------------
(* SpecParse: parse_apa_reference applied to one line, then record_to_ris *)

MaxParseTokens == 4

ParseTokens == {
  <<"A">>, <<".">>, <<" ">>, <<"(", "2", "0", "2", "0", ")">>, <<"(", "2", "0", "2", ")">>, <<"h", "t", "t", "p", ":", "/", "/", "u">>, <<"c", "o", "u", "n", "c", "i", "l">> }

\* Example 1 of the specification
Example1 ==
  <<"S", "m", "i", "t", "h", ",", " ", "J", ".", " ", "(", "2", "0", "2", "0", ")", ".", " ", "A", " ", "s", "t", "u", "d", "y", " ", "o", "f", " ", "t", "h", "i", "n", "g", "s", ".", " ", "J", "o", "u", "r", "n", "a", "l", " ", "o", "f", " ", "T", "h", "i", "n", "g", "s", ",", " ", "5", "(", "2", ")", ",", " ", "1", "0">>
    \o <<EnDash>> \o <<"2", "0", ".", " ", "h", "t", "t", "p", "s", ":", "/", "/", "d", "o", "i", ".", "o", "r", "g", "/", "1", "0", ".", "1", "/", "x">>

ParseLines == Compose(ParseTokens, MaxParseTokens) \cup {Example1}

InitParse ==
  /\ pc = "call"
  /\ line \in ParseLines
  /\ record = EmptyDict
  /\ out = <<>>
  /\ original = <<>>
  /\ after_year = <<>>
  /\ ty = None
  /\ text = <<>>
  /\ lines = <<>>
  /\ ris_entries = <<>>
  /\ result = <<>>

\* record = parse_apa_reference(line); an empty record is not serialized
Parse ==
  /\ pc = "call"
  /\ record' = parse_apa_reference(line)
  /\ pc' = IF DOMAIN record' = {} THEN "ret" ELSE "parsed"
  /\ UNCHANGED <<original, after_year, ty, line, out, text, lines,
                 ris_entries, result>>

\* out = record_to_ris(record)
Serialize ==
  /\ pc = "parsed"
  /\ out' = record_to_ris(record)
  /\ pc' = "ret"
  /\ UNCHANGED <<original, after_year, ty, line, record, text, lines,
                 ris_entries, result>>

NextParse == Parse \/ Serialize

SpecParse == InitParse /\ [][NextParse]_vars

----------------------------------------------------------------------------
(* SpecSerialize: record_to_ris applied to one record *)

MaxValueLen == 1

\* the values of a field: None, "" and short strings
FieldValues == {None} \cup {Some(v) : v \in Compose({<<"a">>}, MaxValueLen)}

\* the records: every field set or unset, TY possibly missing
SerialRecords == [Tags -> FieldValues] \cup [Tags \ {"TY"} -> FieldValues]

InitSerialize ==
  /\ pc = "parsed"
  /\ record \in SerialRecords
  /\ out = <<>>
  /\ line = <<>>
  /\ original = <<>>
  /\ after_year = <<>>
  /\ ty = None
  /\ text = <<>>
  /\ lines = <<>>
  /\ ris_entries = <<>>
  /\ result = <<>>

NextSerialize == Serialize

SpecSerialize == InitSerialize /\ [][NextSerialize]_vars

----------------------------------------------------------------------------
(* Spec: references_text_to_ris applied to a text *)

MaxTextTokens == 4

TextTokens == { <<"\n">>, <<"\r">>, <<" ">>, <<"A">>, <<"(", "2", "0", "2", "0", ")">> }

Texts == Compose(TextTokens, MaxTextTokens)

Init ==
  /\ pc = "start"
  /\ text \in Texts
  /\ lines = <<>>
  /\ ris_entries = <<>>
  /\ result = <<>>
  /\ line = <<>>
  /\ record = EmptyDict
  /\ out = <<>>
  /\ original = <<>>
  /\ after_year = <<>>
  /\ ty = None

\* for line in text.splitlines()
Start ==
  /\ pc = "start"
  /\ lines' = splitlines(text)
  /\ pc' = "loop"
  /\ UNCHANGED <<original, after_year, ty, line, record, out, text,
                 ris_entries, result>>

\* line = line.strip(); if not line: continue
SkipBlank ==
  /\ pc = "loop"
  /\ lines # <<>>
  /\ strip(Head(lines)) = <<>>
  /\ line' = <<>>
  /\ lines' = Tail(lines)
  /\ UNCHANGED <<pc, original, after_year, ty, record, out, text,
                 ris_entries, result>>

\* the record of a line without a year dropped
ConvertLine_drop_generic ==
  /\ pc = "loop"
  /\ lines # <<>>
  /\ strip(Head(lines)) # <<>>
  /\ LET stripped == strip(Head(lines))
         rec == parse_apa_reference(stripped)
         block == record_to_ris(rec)
     IN  /\ line' = stripped
         /\ record' = rec
         /\ out' = IF DOMAIN rec = {} THEN out ELSE block
         /\ ris_entries' = IF DOMAIN rec = {} \/ rec["PY"] = None
                             THEN ris_entries
                             ELSE Append(ris_entries, block)
  /\ lines' = Tail(lines)
  /\ UNCHANGED <<pc, original, after_year, ty, text, result>>

\* the entry put in front of the list
ConvertLine_prepend ==
  /\ pc = "loop"
  /\ lines # <<>>
  /\ strip(Head(lines)) # <<>>
  /\ LET stripped == strip(Head(lines))
         rec == parse_apa_reference(stripped)
         block == record_to_ris(rec)
     IN  /\ line' = stripped
         /\ record' = rec
         /\ out' = IF DOMAIN rec = {} THEN out ELSE block
         /\ ris_entries' = IF DOMAIN rec = {}
                             THEN ris_entries
                             ELSE <<block>> \o ris_entries
  /\ lines' = Tail(lines)
  /\ UNCHANGED <<pc, original, after_year, ty, text, result>>

\* record = parse_apa_reference(line); if not record: continue;
\* ris_entries.append(record_to_ris(record))
ConvertLine ==
  /\ pc = "loop"
  /\ lines # <<>>
  /\ strip(Head(lines)) # <<>>
  /\ LET stripped == strip(Head(lines))
         rec == parse_apa_reference(stripped)
         block == record_to_ris(rec)
     IN  /\ line' = stripped
         /\ record' = rec
         /\ out' = IF DOMAIN rec = {} THEN out ELSE block
         /\ ris_entries' = IF DOMAIN rec = {}
                             THEN ris_entries
                             ELSE Append(ris_entries, block)
  /\ lines' = Tail(lines)
  /\ UNCHANGED <<pc, original, after_year, ty, text, result>>

\* return "".join(ris_entries)
Finish ==
  /\ pc = "loop"
  /\ lines = <<>>
  /\ result' = join(<<>>, ris_entries)
  /\ pc' = "done"
  /\ UNCHANGED <<original, after_year, ty, line, record, out, text, lines,
                 ris_entries>>

Next == Start \/ SkipBlank \/ ConvertLine \/ Finish

Spec == Init /\ [][Next]_vars

----------------------------------------------------------------------------
(* Properties of parse_apa_reference, record_to_ris and                   *)
(* references_text_to_ris                                                  *)

\* a parenthesized 4-digit year `(YYYY)` stands in s at i
YearMarkAt(s, i) ==
  /\ i + 5 <= Len(s)
  /\ s[i] = "("
  /\ s[i + 1] \in Digits /\ s[i + 2] \in Digits
  /\ s[i + 3] \in Digits /\ s[i + 4] \in Digits
  /\ s[i + 5] = ")"

HasYearMark(s) == \E i \in 1..Len(s) : YearMarkAt(s, i)

\* s has a character that is no whitespace
NonBlank(s) == \E i \in 1..Len(s) : s[i] \notin Whitespace

\* t is s without its leading and trailing whitespace
IsTrimOf(t, s) ==
  \E a \in 1..(Len(s) + 1) : \E b \in 0..Len(s) :
    /\ t = SubSeq(s, a, b)
    /\ \A x \in 1..(a - 1) : s[x] \in Whitespace
    /\ \A x \in (b + 1)..Len(s) : s[x] \in Whitespace
    /\ t # <<>> => (t[1] \notin Whitespace /\ t[Len(t)] \notin Whitespace)

\* the pieces of s between the occurrences of the character c
SplitOn(s, c) ==
  LET at == {i \in 1..Len(s) : s[i] = c}
      \* the k-th occurrence of c; the ends of s stand for the 0-th and the last
      sep(k) == IF k = 0 THEN 0
                ELSE IF k > Cardinality(at) THEN Len(s) + 1
                ELSE CHOOSE i \in at : Cardinality({j \in at : j < i}) = k - 1
  IN  [k \in 1..(Cardinality(at) + 1) |-> SubSeq(s, sep(k - 1) + 1, sep(k) - 1)]

\* t is a prefix of s
IsPrefix(t, s) == Len(t) <= Len(s) /\ \A k \in 1..Len(t) : s[k] = t[k]

\* a line of the block o starts with `<tag>  - `
HasTagLine(o, tag) ==
  \E a \in DOMAIN SplitOn(o, "\n") : IsPrefix(TagText[tag] \o <<" ", " ", "-", " ">>, SplitOn(o, "\n")[a])

\* C5: for a line that is not blank, the parsed type is GEN if and only if
\* the line has no `(YYYY)` year; and then AU, PY, TI and UR are all unset
\* (even when the line has a URL) and N1 is the trimmed line.
C5_GenericIffNoYear ==
  (pc # "call" /\ NonBlank(line)) =>
    /\ DOMAIN record = Tags
    /\ (record["TY"] = Some(GEN)) <=> ~HasYearMark(line)
    /\ ~HasYearMark(line) =>
         /\ record["AU"] = None /\ record["PY"] = None
         /\ record["TI"] = None /\ record["UR"] = None
         /\ record["N1"] # None /\ IsTrimOf(record["N1"][1], line)

C5_Witness ==
  /\ pc = "ret"
  /\ ~HasYearMark(line)
  /\ OccursCI(line, <<"h", "t", "t", "p", ":", "/", "/", "u">>)
  /\ line[1] \in Whitespace
  /\ record["TY"] = Some(GEN)
  /\ record["UR"] = None

\* the text before the first year of s is empty once trimmed and stripped
\* of one trailing period
EmptyAuthorSegment(s) ==
  \E i \in 1..Len(s) :
    /\ YearMarkAt(s, i)
    /\ \A j \in 1..(i - 1) : ~YearMarkAt(s, j)
    /\ SelectSeq(SubSeq(s, 1, i - 1), LAMBDA c : c \notin Whitespace) \in {<<>>, <<".">>}

\* C6: when the text before the first year is empty after trimming and
\* after stripping one trailing period, the authors field is absent and the
\* serialized record has no `AU  - ` line.
C6_EmptyAuthorsAbsent ==
  (pc # "call" /\ EmptyAuthorSegment(line)) =>
    /\ Get(record, "AU") = None
    /\ pc = "ret" => ~HasTagLine(out, "AU")

\* the fields of Example 1, for a given author field
Example1Fields(au) ==
  [TY |-> Some(JOUR),
   AU |-> Some(au),
   PY |-> Some(<<"2", "0", "2", "0">>),
   TI |-> Some(<<"A", " ", "s", "t", "u", "d", "y", " ", "o", "f", " ", "t", "h", "i", "n", "g", "s">>),
   UR |-> Some(<<"h", "t", "t", "p", "s", ":", "/", "/", "d", "o", "i", ".", "o", "r", "g", "/", "1", "0", ".", "1", "/", "x">>)]

\* the record has the fields f
HasFields(rec, f) == \A k \in DOMAIN f : Get(rec, k) = f[k]

\* C10 as stated: parsing Example 1 gives type JOUR, author `Smith, J.,`,
\* year `2020`, title `A study of things` and url `https://doi.org/10.1/x`.
C10_Original ==
  (pc # "call" /\ line = Example1) =>
    HasFields(record, Example1Fields(<<"S", "m", "i", "t", "h", ",", " ", "J", ".", ",">>))

\* C10 amended: parsing Example 1 gives type JOUR, author `Smith, J,` (the
\* trailing period of the author segment stripped, then the comma
\* appended), year `2020`, title `A study of things` and url
\* `https://doi.org/10.1/x`.
C10_Example1 ==
  (pc # "call" /\ line = Example1) =>
    HasFields(record, Example1Fields(<<"S", "m", "i", "t", "h", ",", " ", "J", ",">>))

C10_Witness ==
  /\ pc = "ret"
  /\ line = Example1
  /\ record["PY"] = Some(<<"2", "0", "2", "0">>)
  /\ HasTagLine(out, "UR")

\* the order of the tags in a block
TagOrder == <<"TY", "AU", "TI", "PY", "UR", "N1", "ER">>

\* the lines of the block o, the two empty pieces after its end left out
BlockLines(o) == SubSeq(SplitOn(o, "\n"), 1, Len(SplitOn(o, "\n")) - 2)

\* the position in TagOrder of the tag that the line l starts with, 0 when
\* it starts with no `<tag>  - `
TagIndex(l) ==
  IF \E t \in DOMAIN TagOrder : IsPrefix(TagText[TagOrder[t]] \o <<" ", " ", "-", " ">>, l)
    THEN CHOOSE t \in DOMAIN TagOrder : IsPrefix(TagText[TagOrder[t]] \o <<" ", " ", "-", " ">>, l)
    ELSE 0

\* C9: the block is the tagged lines in the order TY, AU, TI, PY, UR, N1,
\* ER, each `<tag>  - <value>`; TY (GEN when the type is unset) and the
\* final `ER  - ` are always there, each of AU, TI, PY, UR, N1 is there if
\* and only if its value is present and non-empty, no tag is there twice,
\* and the block ends with two newlines.
C9_SerializedBlock ==
  pc = "ret" =>
    LET all == SplitOn(out, "\n")
        L == BlockLines(out)
        n == Len(L)
    IN  /\ Len(all) >= 4
        /\ all[Len(all)] = <<>> /\ all[Len(all) - 1] = <<>>
        /\ L[n] = <<"E", "R", " ", " ", "-", " ">>
        /\ L[1] = <<"T", "Y", " ", " ", "-", " ">> \o (IF Get(record, "TY") \in {None, Some(<<>>)}
                                  THEN GEN ELSE Get(record, "TY")[1])
        /\ \A a \in 1..n : TagIndex(L[a]) # 0
        /\ \A a \in 1..n : \A b \in (a + 1)..n : TagIndex(L[a]) < TagIndex(L[b])
        /\ \A f \in {"AU", "TI", "PY", "UR", "N1"} :
             /\ (\E a \in 1..n : TagIndex(L[a]) # 0 /\ TagOrder[TagIndex(L[a])] = f)
                  <=> Get(record, f) \notin {None, Some(<<>>)}
             /\ Get(record, f) \notin {None, Some(<<>>)} =>
                  \E a \in 1..n : L[a] = TagText[f] \o <<" ", " ", "-", " ">> \o Get(record, f)[1]

C9_Witness ==
  /\ pc = "ret"
  /\ "TY" \notin DOMAIN record
  /\ record["AU"] = Some(<<>>)
  /\ record["TI"] = None
  /\ record["PY"] # None /\ record["PY"] # Some(<<>>)
  /\ HasTagLine(out, "PY")
  /\ ~HasTagLine(out, "AU")

\* the lines of the text that are not blank, trimmed
RECURSIVE NonBlankLines(_)
NonBlankLines(ls) ==
  IF ls = <<>> THEN <<>>
  ELSE (IF strip(Head(ls)) = <<>> THEN <<>> ELSE <<strip(Head(ls))>>)
         \o NonBlankLines(Tail(ls))

\* the record blocks of the lines ls, one after the other
RECURSIVE Blocks(_)
Blocks(ls) ==
  IF ls = <<>> THEN <<>>
  ELSE record_to_ris(parse_apa_reference(Head(ls))) \o Blocks(Tail(ls))

\* the blocks of lines without a year: TY GEN, the line as N1, ER
RECURSIVE GenericBlocks(_)
GenericBlocks(ls) ==
  IF ls = <<>> THEN <<>>
  ELSE <<"T", "Y", " ", " ", "-", " ", "G", "E", "N">> \o <<"\n">> \o <<"N", "1", " ", " ", "-", " ">> \o Head(ls) \o <<"\n">>
         \o <<"E", "R", " ", " ", "-", " ">> \o <<"\n", "\n">> \o GenericBlocks(Tail(ls))

\* C7 as stated: when no line of the text has a `(YYYY)` year, the result
\* is the empty string.
C7_Original ==
  (pc = "done" /\ ~HasYearMark(text)) => result = <<>>

\* C7 amended: when no line of the text has a `(YYYY)` year, the result is
\* one block `TY  - GEN`, `N1  - <the trimmed line>`, `ER  - ` and a blank
\* line for each line that is not blank, in input order; it is the empty
\* string only when every line is blank.
C7_NoYearGivesGenericBlocks ==
  (pc = "done" /\ ~HasYearMark(text)) =>
    /\ result = GenericBlocks(NonBlankLines(splitlines(text)))
    /\ result = <<>> <=> ~NonBlank(text)

C7_Witness ==
  /\ pc = "done"
  /\ ~HasYearMark(text)
  /\ Len(ris_entries) >= 2
  /\ result # <<>>

\* C8: the result is the concatenation, in input order and with no
\* separator, of record_to_ris(parse_apa_reference(l)) over the lines l
\* that are not blank, trimmed: one block for each such line, nothing for a
\* blank line, and the empty string exactly when the text has no line that
\* is not blank.  Inside the loop the entries gathered so far are the
\* blocks of the lines already taken, whatever the lines still to come.
C8_ConcatenationOfBlocks ==
  /\ pc \in {"start", "loop", "done"}
  /\ pc = "loop" =>
       \E k \in 0..Len(splitlines(text)) :
         /\ lines = SubSeq(splitlines(text), k + 1, Len(splitlines(text)))
         /\ join(<<>>, ris_entries) = Blocks(NonBlankLines(SubSeq(splitlines(text), 1, k)))
  /\ pc = "done" =>
       /\ result = Blocks(NonBlankLines(splitlines(text)))
       /\ Len(ris_entries) = Len(NonBlankLines(splitlines(text)))
       /\ result = <<>> <=> ~NonBlank(text)

C8_Witness ==
  /\ pc = "done"
  /\ HasYearMark(text)
  /\ Len(ris_entries) >= 2
  /\ Len(splitlines(text)) > Len(ris_entries)
  /\ ris_entries[1] # ris_entries[2]

====
